---- MODULE Spec2Model ----
(***************************************************************************)
(* VarFcnBase (src/VarFcnBase.h): the base class of the equation-of-state  *)
(* classes.  One object (rhomin, pmin, verbose, type and the overriding    *)
(* subclass) and the caller's two 5-component buffers V (primitive) and U  *)
(* (conservative); one action per member function.                          *)
(*                                                                         *)
(* A C++ double is modelled as a binary floating-point number in the       *)
(* IEEE-754 manner with a reduced format: MantBits significant bits,       *)
(* gradual underflow with quantum 2^-FracBits, round-to-nearest-even,      *)
(* +Inf, -Inf and NaN.  A finite value is the integer count n of quanta.   *)
(* Zero is unsigned and the exponent range is unbounded above (no          *)
(* overflow to infinity): infinities and NaN come from division by zero    *)
(* and from the square root of a negative number only.                     *)
(***************************************************************************)
EXTENDS Integers, Sequences, FiniteSets, TLC

\* Bits of the fraction below 1.0 (the quantum is 2^-FracBits).
FracBits == 3
\* Significant bits of a normal number (a double has 53).
MantBits == 4

RECURSIVE Pow2(_)
Pow2(k) == IF k <= 0 THEN 1 ELSE 2 * Pow2(k - 1)

RECURSIVE BitLen(_)
BitLen(n) == IF n <= 0 THEN 0 ELSE 1 + BitLen(n \div 2)

One == Pow2(FracBits)

\* The spacing of the representable numbers around q quanta.
Spacing(q) == Pow2(BitLen(q) - MantBits)

\* m or m + 1, the multiple of ds nearest to a >= 0, ties to even.
Nearest(a, ds, m) ==
  IF 2 * (a - m * ds) > ds \/ (2 * (a - m * ds) = ds /\ m % 2 = 1) THEN m + 1 ELSE m

\* The rational a/D >= 0 rounded to a multiple of s.
RoundMag(a, D, s) == Nearest(a, D * s, a \div (D * s)) * s

\* The rational N/D (D > 0), counted in quanta, rounded to the nearest
\* representable number, ties to even.
RoundRat(N, D) ==
  IF N < 0 THEN -RoundMag(-N, D, Spacing((-N) \div D))
  ELSE RoundMag(N, D, Spacing(N \div D))

\* Whether N/D is representable, so that an operation yielding it does not round.
ExactRat(N, D) == RoundRat(N, D) * D = N

Fin(n) == [k |-> "fin", n |-> n]
PInf   == [k |-> "inf", n |-> 1]
NInf   == [k |-> "inf", n |-> -1]
NaN    == [k |-> "nan", n |-> 0]

IsFin(a) == a.k = "fin"
IsNaN(a) == a.k = "nan"
IsInf(a) == a.k = "inf"
Sgn(a)   == IF a.n > 0 THEN 1 ELSE IF a.n < 0 THEN -1 ELSE 0
InfOf(s) == IF s < 0 THEN NInf ELSE PInf

\* The literal num/den of the source text, as the compiler rounds it.
Lit(num, den) == Fin(RoundRat(num * One, den))

FNeg(a) == IF IsNaN(a) THEN NaN ELSE [k |-> a.k, n |-> -a.n]

FAdd(a, b) ==
  IF IsNaN(a) \/ IsNaN(b) THEN NaN
  ELSE IF IsInf(a) /\ IsInf(b) THEN (IF a.n = b.n THEN a ELSE NaN)
  ELSE IF IsInf(a) THEN a
  ELSE IF IsInf(b) THEN b
  ELSE Fin(RoundRat(a.n + b.n, 1))

FSub(a, b) == FAdd(a, FNeg(b))

FMul(a, b) ==
  IF IsNaN(a) \/ IsNaN(b) THEN NaN
  ELSE IF IsInf(a) \/ IsInf(b)
       THEN (IF Sgn(a) * Sgn(b) = 0 THEN NaN ELSE InfOf(Sgn(a) * Sgn(b)))
  ELSE Fin(RoundRat(a.n * b.n, One))

FDiv(a, b) ==
  IF IsNaN(a) \/ IsNaN(b) THEN NaN
  ELSE IF IsInf(a) THEN (IF IsInf(b) THEN NaN
                         ELSE InfOf(a.n * (IF b.n < 0 THEN -1 ELSE 1)))
  ELSE IF IsInf(b) THEN Fin(0)
  ELSE IF b.n = 0 THEN (IF a.n = 0 THEN NaN ELSE InfOf(a.n))
  ELSE IF b.n < 0 THEN Fin(RoundRat(-(a.n * One), -b.n))
  ELSE Fin(RoundRat(a.n * One, b.n))

\* r or r + 1, whichever is the integer part of sqrt(x).
RootStep(x, r) == IF (r + 1) * (r + 1) <= x THEN r + 1 ELSE r

RECURSIVE ISqrt(_)
ISqrt(x) == IF x < 2 THEN x ELSE RootStep(x, 2 * ISqrt(x \div 4))

\* m or m + 1, the multiple of s nearest to sqrt(x), ties to even.
NearestRoot(x, s, m) ==
  IF 4 * x > (2 * m + 1) * s * (2 * m + 1) * s
     \/ (4 * x = (2 * m + 1) * s * (2 * m + 1) * s /\ m % 2 = 1)
  THEN m + 1 ELSE m

\* sqrt(x) rounded to a multiple of s, r being its integer part.
RoundRoot(x, r, s) == NearestRoot(x, s, r \div s) * s

\* sqrt of cmath, correctly rounded.
FSqrt(a) ==
  IF IsNaN(a) \/ a.n < 0 THEN NaN
  ELSE IF IsInf(a) THEN PInf
  ELSE Fin(RoundRoot(a.n * One, ISqrt(a.n * One), Spacing(ISqrt(a.n * One))))

\* The comparisons of double: false as soon as an operand is NaN.
Key(a) == IF IsInf(a) THEN a.n * 1000000 ELSE a.n
FLt(a, b) == ~IsNaN(a) /\ ~IsNaN(b) /\ Key(a) < Key(b)
FLe(a, b) == ~IsNaN(a) /\ ~IsNaN(b) /\ Key(a) <= Key(b)
FEq(a, b) == ~IsNaN(a) /\ ~IsNaN(b) /\ a = b

Zero == Fin(0)
Half == Lit(1, 2)

One_ == Lit(1, 1)

(***************************************************************************)
(* The object and the caller's buffers.                                    *)
(***************************************************************************)
VARIABLES
  data,     \* the constructor's arguments: data.rhomin, data.pmin, verbose_
  variant,  \* the class of the object: VarFcnBase itself or an overriding subclass
  type,     \* enum Type type
  rhomin,   \* double rhomin
  pmin,     \* double pmin
  verbose,  \* bool verbose
  V,        \* the caller's primitive state, V[0..4]
  U,        \* the caller's conservative state, U[0..4]
  last,     \* the last call: its arguments on entry, what it returned and printed
  ncalls,   \* the calls made so far
  fatal     \* exit_mpi() was called: the process is gone

vars == <<data, variant, type, rhomin, pmin, verbose, V, U, last, ncalls, fatal>>

STIFFENED_GAS == 0
MIE_GRUNEISEN == 1
JWL == 2

Variants == {"VarFcnBase", "VarFcnSG", "VarFcnNH"}
Implemented == variant # "VarFcnBase"

\* What a member function hands back: its value, whether it ended in
\* exit_mpi() (which ends the process and does not return), and what it
\* printed: "print_error", or the stream of an fprintf.
Ret(r)     == [ret |-> r, fatal |-> FALSE, msgs |-> <<>>]
Exit(msgs) == [ret |-> Zero, fatal |-> TRUE, msgs |-> msgs]

Vec(a, b, c, d, e) == (0 :> a) @@ (1 :> b) @@ (2 :> c) @@ (3 :> d) @@ (4 :> e)

(***************************************************************************)
(* EOS-specific functions.  VarFcnBase's own bodies print an error and     *)
(* exit; a subclass overrides them.  VarFcnSG is the perfect gas           *)
(* p = (gamma-1) rho e with gamma = 1.4; VarFcnNH has the same pressure    *)
(* law and GetDpdrho = -1, GetBigGamma = 0.                                *)
(***************************************************************************)
VarFcnBase_GetPressure(rho, e) == Exit(<<"print_error">>)
VarFcnBase_GetInternalEnergyPerUnitMass(rho, p) == Exit(<<"print_error">>)
\* GetDensity without its exit_mpi(): it prints and returns 0.0.
VarFcnBase_GetDensity_NoExit(p, e) ==
  [ret |-> Zero, fatal |-> FALSE, msgs |-> <<"print_error">>]
VarFcnBase_GetDensity(p, e) == Exit(<<"print_error">>)
VarFcnBase_GetDpdrho(rho, e) == Exit(<<"print_error">>)
VarFcnBase_GetBigGamma(rho, e) == Exit(<<"print_error">>)

gam1 == FSub(Lit(7, 5), One_)

Sub_GetPressure(rho, e) == FMul(FMul(gam1, rho), e)
Sub_GetInternalEnergyPerUnitMass(rho, p) == FDiv(p, FMul(gam1, rho))
Sub_GetDensity(p, e) == FDiv(p, FMul(gam1, e))
Sub_GetDpdrho(rho, e) ==
  IF variant = "VarFcnNH" THEN FNeg(One_) ELSE FMul(gam1, e)
Sub_GetBigGamma(rho, e) ==
  IF variant = "VarFcnNH" THEN Zero ELSE gam1

GetPressure(rho, e) ==
  IF Implemented THEN Ret(Sub_GetPressure(rho, e))
  ELSE VarFcnBase_GetPressure(rho, e)
GetInternalEnergyPerUnitMass(rho, p) ==
  IF Implemented THEN Ret(Sub_GetInternalEnergyPerUnitMass(rho, p))
  ELSE VarFcnBase_GetInternalEnergyPerUnitMass(rho, p)
GetDensity(p, e) ==
  IF Implemented THEN Ret(Sub_GetDensity(p, e))
  ELSE VarFcnBase_GetDensity(p, e)
GetDpdrho(rho, e) ==
  IF Implemented THEN Ret(Sub_GetDpdrho(rho, e))
  ELSE VarFcnBase_GetDpdrho(rho, e)
GetBigGamma(rho, e) ==
  IF Implemented THEN Ret(Sub_GetBigGamma(rho, e))
  ELSE VarFcnBase_GetBigGamma(rho, e)

\* V[1]*V[1]+V[2]*V[2]+V[3]*V[3]
VelSq(W) == FAdd(FAdd(FMul(W[1], W[1]), FMul(W[2], W[2])), FMul(W[3], W[3]))

\* dpdrho + pr/rho*bigGamma
C2Of(dpdrho, pr, rho, bigGamma) == FAdd(dpdrho, FMul(FDiv(pr, rho), bigGamma))

\* CheckState exiting on a bad state, as ComputeSoundSpeed does.
CheckState_Exits(W) ==
  LET ge == GetInternalEnergyPerUnitMass(W[0], W[4])
      c2 == C2Of(GetDpdrho(W[0], ge.ret).ret, W[4], W[0], GetBigGamma(W[0], ge.ret).ret)
      bad == FLe(W[0], Zero) \/ FLe(c2, Zero)
  IN  [flag |-> bad, fatal |-> ge.fatal \/ bad, msgs |-> ge.msgs]

\* CheckState testing c2 < 0 instead of c2 <= 0.
CheckState_StrictTest(W) ==
  LET ge == GetInternalEnergyPerUnitMass(W[0], W[4])
      c2 == C2Of(GetDpdrho(W[0], ge.ret).ret, W[4], W[0], GetBigGamma(W[0], ge.ret).ret)
      bad == FLe(W[0], Zero) \/ FLt(c2, Zero)
  IN  [flag |-> bad, fatal |-> ge.fatal,
       msgs |-> IF ge.fatal THEN ge.msgs
                ELSE IF bad /\ verbose THEN <<"stdout">> ELSE <<>>]

(***************************************************************************)
(* checks that the Euler equations are still hyperbolic                    *)
(***************************************************************************)
CheckState(W) ==
  LET ge == GetInternalEnergyPerUnitMass(W[0], W[4])
      gd == GetDpdrho(W[0], ge.ret)
      gb == GetBigGamma(W[0], ge.ret)
      c2 == C2Of(gd.ret, W[4], W[0], gb.ret)
      bad == FLe(W[0], Zero) \/ FLe(c2, Zero)
  IN  IF ge.fatal THEN [flag |-> FALSE, fatal |-> TRUE, msgs |-> ge.msgs]
      ELSE IF gd.fatal \/ gb.fatal
      THEN [flag |-> FALSE, fatal |-> TRUE, msgs |-> <<"print_error">>]
      ELSE [flag |-> bad, fatal |-> FALSE,
            msgs |-> IF bad /\ verbose THEN <<"stdout">> ELSE <<>>]

(***************************************************************************)
(* Transformation operators                                                *)
(***************************************************************************)
ConservativeToPrimitive(Uc, W) ==
  LET invRho == FDiv(One_, Uc[0])
      V1 == FMul(Uc[1], invRho)
      V2 == FMul(Uc[2], invRho)
      V3 == FMul(Uc[3], invRho)
      e  == FMul(FSub(Uc[4], FMul(FMul(Half, Uc[0]),
                 FAdd(FAdd(FMul(V1, V1), FMul(V2, V2)), FMul(V3, V3)))), invRho)
      gp == GetPressure(Uc[0], e)
  IN  [V |-> Vec(Uc[0], V1, V2, V3, IF gp.fatal THEN W[4] ELSE gp.ret),
       fatal |-> gp.fatal, msgs |-> gp.msgs]

\* PrimitiveToConservative without the 0.5 of the kinetic energy.
PrimitiveToConservative_NoHalf(W, Uc) ==
  LET ge == GetInternalEnergyPerUnitMass(W[0], W[4])
  IN  [U |-> Vec(W[0], FMul(W[0], W[1]), FMul(W[0], W[2]), FMul(W[0], W[3]),
                 IF ge.fatal THEN Uc[4] ELSE FMul(W[0], FAdd(ge.ret, VelSq(W)))),
       fatal |-> ge.fatal, msgs |-> ge.msgs]

PrimitiveToConservative(W, Uc) ==
  LET ge == GetInternalEnergyPerUnitMass(W[0], W[4])
      E  == FMul(W[0], FAdd(ge.ret, FMul(Half, VelSq(W))))
  IN  [U |-> Vec(W[0], FMul(W[0], W[1]), FMul(W[0], W[2]), FMul(W[0], W[3]),
                 IF ge.fatal THEN Uc[4] ELSE E),
       fatal |-> ge.fatal, msgs |-> ge.msgs]

(***************************************************************************)
(* General functions                                                       *)
(***************************************************************************)
ComputeSoundSpeedSquare(rho, e) ==
  LET gd == GetDpdrho(rho, e)
      gp == GetPressure(rho, e)
      gb == GetBigGamma(rho, e)
  IN  IF gd.fatal \/ gp.fatal \/ gb.fatal THEN Exit(<<"print_error">>)
      ELSE Ret(C2Of(gd.ret, gp.ret, rho, gb.ret))

\* ComputeSoundSpeed testing c2 < 0, as ComputeMachNumber does.
ComputeSoundSpeed_StrictTest(rho, e) ==
  LET c2 == ComputeSoundSpeedSquare(rho, e)
  IN  IF c2.fatal THEN c2
      ELSE IF FLt(c2.ret, Zero) THEN Exit(<<"stderr">>)
      ELSE Ret(FSqrt(c2.ret))

ComputeSoundSpeed(rho, e) ==
  LET c2 == ComputeSoundSpeedSquare(rho, e)
  IN  IF c2.fatal THEN c2
      ELSE IF FLe(c2.ret, Zero) THEN Exit(<<"stderr">>)
      ELSE Ret(FSqrt(c2.ret))

ComputeMachNumber(W) ==
  LET ge == GetInternalEnergyPerUnitMass(W[0], W[4])
      c  == ComputeSoundSpeedSquare(W[0], ge.ret)
  IN  IF ge.fatal THEN ge
      ELSE IF c.fatal THEN c
      ELSE IF FLt(c.ret, Zero) THEN Exit(<<"stderr">>)
      ELSE Ret(FDiv(FSqrt(VelSq(W)), FSqrt(c.ret)))

ComputeTotalEnthalpyPerUnitMass(W) ==
  LET ge == GetInternalEnergyPerUnitMass(W[0], W[4])
  IN  IF ge.fatal THEN ge
      ELSE Ret(FAdd(FAdd(ge.ret, FMul(Half, VelSq(W))), FDiv(W[4], W[0])))

(***************************************************************************)
(* Clipping                                                                *)
(***************************************************************************)
\* ClipDensityAndPressure with the density clamped to rho0 and the pressure
\* to p0, U being rewritten from the clamped state or (stale) from W itself.
ClipWith(W, Uc, hasU, rho0, p0, stale) ==
  LET clipRho == FLt(W[0], rhomin)
      clipP == FLt(W[4], pmin)
      W2 == [W EXCEPT ![0] = IF clipRho THEN rho0 ELSE W[0],
                      ![4] = IF clipP THEN p0 ELSE W[4]]
      pc == PrimitiveToConservative(IF stale THEN W ELSE W2, Uc)
      m1 == IF clipRho /\ verbose THEN <<"stderr">> ELSE <<>>
      m2 == IF clipP /\ verbose THEN <<"stdout">> ELSE <<>>
  IN  IF (clipRho \/ clipP) /\ hasU
      THEN [V |-> W2, U |-> pc.U, flag |-> TRUE, fatal |-> pc.fatal,
            msgs |-> m1 \o m2 \o pc.msgs]
      ELSE [V |-> W2, U |-> Uc, flag |-> clipRho \/ clipP, fatal |-> FALSE,
            msgs |-> m1 \o m2]

\* V[4] = rhomin in the pressure clamp.
ClipDensityAndPressure_PressureToRhomin(W, Uc, hasU) ==
  ClipWith(W, Uc, hasU, rhomin, rhomin, FALSE)

\* PrimitiveToConservative called on V as it was before the clamps.
ClipDensityAndPressure_StaleU(W, Uc, hasU) ==
  ClipWith(W, Uc, hasU, rhomin, pmin, TRUE)

\* V[0] += rhomin in the density clamp.
ClipDensityAndPressure_AddFloor(W, Uc, hasU) ==
  ClipWith(W, Uc, hasU, FAdd(W[0], rhomin), pmin, FALSE)

ClipDensityAndPressure(W, Uc, hasU) ==
  LET clipRho == FLt(W[0], rhomin)
      W1   == IF clipRho THEN [W EXCEPT ![0] = rhomin] ELSE W
      clipP == FLt(W1[4], pmin)
      W2   == IF clipP THEN [W1 EXCEPT ![4] = pmin] ELSE W1
      clip == clipRho \/ clipP
      pc   == PrimitiveToConservative(W2, Uc)
      m1   == IF clipRho /\ verbose THEN <<"stderr">> ELSE <<>>
      m2   == IF clipP /\ verbose THEN <<"stdout">> ELSE <<>>
  IN  IF clip /\ hasU
      THEN [V |-> W2, U |-> pc.U, flag |-> clip, fatal |-> pc.fatal,
            msgs |-> m1 \o m2 \o pc.msgs]
      ELSE [V |-> W2, U |-> Uc, flag |-> clip, fatal |-> FALSE, msgs |-> m1 \o m2]

GetType == type

(***************************************************************************)
(* The inputs: the floors and the states a caller hands in.                *)
(***************************************************************************)
Floors == {<<Lit(1, 2), Lit(1, 4)>>, <<Zero, Zero>>}

RhoIn == {Lit(-1, 1), Zero, Lit(1, 4), One_, Lit(3, 1)}
VelIn == {<<Zero, Zero, Zero>>, <<One_, Lit(1, 2), Lit(-1, 2)>>}
PIn   == {Lit(-1, 2), Zero, Lit(3, 8), One_}
PrimInputs == {Vec(r, u[1], u[2], u[3], p) : r \in RhoIn, u \in VelIn, p \in PIn}

EIn   == {Lit(-1, 1), Zero, One_, Lit(5, 2)}
ConsInputs == {Vec(r, m[1], m[2], m[3], E) : r \in {Zero, One_, Lit(3, 1)},
                                             m \in VelIn, E \in EIn}
Scratch == Vec(One_, One_, One_, One_, One_)

NoCall == [op |-> "none", Vin |-> Scratch, Uin |-> Scratch, hasU |-> FALSE,
           a |-> Zero, b |-> Zero, ret |-> Zero, flag |-> FALSE, ival |-> -1,
           msgs |-> <<>>]

\* The scalar arguments a caller has at hand: the density and pressure of its
\* state, and the value the previous call returned.
ScalarArgs == {<<V[0], V[4]>>, <<V[0], last.ret>>}

\* The calls of one run.
MaxCalls == 3

\* The process is alive and makes one more call.
Enter == ~fatal /\ ncalls < MaxCalls /\ ncalls' = ncalls + 1

\* The record of a call of op with the scalar arguments (a, b).
Call(op, hasU, a, b, ret, flag, msgs) ==
  [op |-> op, Vin |-> V, Uin |-> U, hasU |-> hasU, a |-> a, b |-> b,
   ret |-> ret, flag |-> flag, ival |-> -1, msgs |-> msgs]

Init ==
  /\ variant \in Variants
  /\ type \in (IF variant = "VarFcnBase" THEN {STIFFENED_GAS, MIE_GRUNEISEN, JWL}
               ELSE IF variant = "VarFcnSG" THEN {STIFFENED_GAS} ELSE {JWL})
  /\ \E f \in Floors, vb \in BOOLEAN :
        data = [rhomin |-> f[1], pmin |-> f[2], verbose_ |-> vb]
  /\ rhomin = data.rhomin
  /\ pmin = data.pmin
  /\ verbose = data.verbose_
  /\ \/ V \in PrimInputs /\ U = Scratch
     \/ V = Scratch /\ U \in ConsInputs
  /\ last = NoCall
  /\ ncalls = 0
  /\ fatal = FALSE

Object == <<data, variant, type, rhomin, pmin, verbose>>

\* A call of a function of (a, b) that returns a double and writes nothing.
ScalarCall(op, r, a, b) ==
  /\ Enter
  /\ last' = Call(op, FALSE, a, b, r.ret, FALSE, r.msgs)
  /\ fatal' = r.fatal
  /\ UNCHANGED <<Object, V, U>>

CallGetPressure ==
  \E x \in ScalarArgs : ScalarCall("GetPressure", GetPressure(x[1], x[2]), x[1], x[2])
CallGetInternalEnergyPerUnitMass ==
  \E x \in ScalarArgs : ScalarCall("GetInternalEnergyPerUnitMass",
                           GetInternalEnergyPerUnitMass(x[1], x[2]), x[1], x[2])
CallGetDensity ==
  \E x \in ScalarArgs : ScalarCall("GetDensity", GetDensity(x[1], x[2]), x[1], x[2])
CallGetDpdrho ==
  \E x \in ScalarArgs : ScalarCall("GetDpdrho", GetDpdrho(x[1], x[2]), x[1], x[2])
CallGetBigGamma ==
  \E x \in ScalarArgs : ScalarCall("GetBigGamma", GetBigGamma(x[1], x[2]), x[1], x[2])
CallComputeSoundSpeed ==
  \E x \in ScalarArgs : ScalarCall("ComputeSoundSpeed",
                           ComputeSoundSpeed(x[1], x[2]), x[1], x[2])
CallComputeSoundSpeedSquare ==
  \E x \in ScalarArgs : ScalarCall("ComputeSoundSpeedSquare",
                           ComputeSoundSpeedSquare(x[1], x[2]), x[1], x[2])
CallComputeMachNumber ==
  \E W \in {V} : ScalarCall("ComputeMachNumber", ComputeMachNumber(W), Zero, Zero)
CallComputeTotalEnthalpyPerUnitMass ==
  \E W \in {V} : ScalarCall("ComputeTotalEnthalpyPerUnitMass",
                            ComputeTotalEnthalpyPerUnitMass(W), Zero, Zero)

CallGetType ==
  /\ Enter
  /\ last' = [Call("GetType", FALSE, Zero, Zero, Zero, FALSE, <<>>)
                EXCEPT !.ival = GetType]
  /\ UNCHANGED <<Object, V, U, fatal>>

CallCheckState ==
  LET r == CheckState(V)
  IN  /\ Enter
      /\ last' = Call("CheckState", FALSE, Zero, Zero, Zero, r.flag, r.msgs)
      /\ fatal' = r.fatal
      /\ UNCHANGED <<Object, V, U>>

CallConservativeToPrimitive ==
  LET r == ConservativeToPrimitive(U, V)
  IN  /\ Enter
      /\ V' = r.V
      /\ last' = Call("ConservativeToPrimitive", TRUE, Zero, Zero, Zero, FALSE, r.msgs)
      /\ fatal' = r.fatal
      /\ UNCHANGED <<Object, U>>

CallPrimitiveToConservative ==
  LET r == PrimitiveToConservative(V, U)
  IN  /\ Enter
      /\ U' = r.U
      /\ last' = Call("PrimitiveToConservative", TRUE, Zero, Zero, Zero, FALSE, r.msgs)
      /\ fatal' = r.fatal
      /\ UNCHANGED <<Object, V>>

\* The density clamp assigning the wrong way round: rhomin = V[0].
CallClipDensityAndPressure_WritesFloor ==
  \E hasU \in BOOLEAN :
    LET r == ClipDensityAndPressure(V, U, hasU)
    IN  /\ Enter
        /\ V' = r.V
        /\ U' = r.U
        /\ rhomin' = IF FLt(V[0], rhomin) THEN V[0] ELSE rhomin
        /\ last' = Call("ClipDensityAndPressure", hasU, Zero, Zero, Zero, r.flag, r.msgs)
        /\ fatal' = r.fatal
        /\ UNCHANGED <<data, variant, type, pmin, verbose>>

CallClipDensityAndPressure ==
  \E hasU \in BOOLEAN :
    LET r == ClipDensityAndPressure(V, U, hasU)
    IN  /\ Enter
        /\ V' = r.V
        /\ U' = r.U
        /\ last' = Call("ClipDensityAndPressure", hasU, Zero, Zero, Zero, r.flag, r.msgs)
        /\ fatal' = r.fatal
        /\ UNCHANGED Object

Next ==
  \/ CallGetPressure
  \/ CallGetInternalEnergyPerUnitMass
  \/ CallGetDensity
  \/ CallGetDpdrho
  \/ CallGetBigGamma
  \/ CallCheckState
  \/ CallConservativeToPrimitive
  \/ CallPrimitiveToConservative
  \/ CallGetType
  \/ CallComputeSoundSpeed
  \/ CallComputeSoundSpeedSquare
  \/ CallComputeMachNumber
  \/ CallComputeTotalEnthalpyPerUnitMass
  \/ CallClipDensityAndPressure

Spec == Init /\ [][Next]_vars

(***************************************************************************)
(* Properties                                                              *)
(***************************************************************************)
\* a == b on doubles, component by component
VecEq(A, B) == \A i \in 0..4 : FEq(A[i], B[i])

After(op) == last.op = op /\ ~fatal

\* An operation on finite operands whose result is representable: it does not round.
ExAdd(a, b) == IsFin(a) /\ IsFin(b) /\ ExactRat(a.n + b.n, 1)
ExSub(a, b) == IsFin(a) /\ IsFin(b) /\ ExactRat(a.n - b.n, 1)
ExMul(a, b) == IsFin(a) /\ IsFin(b) /\ ExactRat(a.n * b.n, One)
ExDiv(a, b) == IsFin(a) /\ IsFin(b) /\ b.n # 0 /\ FDiv(a, b).n * b.n = a.n * One

\* No operation of V[1]*V[1]+V[2]*V[2]+V[3]*V[3] rounds.
VelSqExact(W) ==
  /\ ExMul(W[1], W[1]) /\ ExMul(W[2], W[2]) /\ ExMul(W[3], W[3])
  /\ ExAdd(FMul(W[1], W[1]), FMul(W[2], W[2]))
  /\ ExAdd(FAdd(FMul(W[1], W[1]), FMul(W[2], W[2])), FMul(W[3], W[3]))

\* No operation of PrimitiveToConservative's own arithmetic rounds on W.
P2CExact(W) ==
  LET e == GetInternalEnergyPerUnitMass(W[0], W[4]).ret
  IN  /\ ExMul(W[0], W[1]) /\ ExMul(W[0], W[2]) /\ ExMul(W[0], W[3])
      /\ VelSqExact(W)
      /\ ExMul(Half, VelSq(W))
      /\ ExAdd(e, FMul(Half, VelSq(W)))
      /\ ExMul(W[0], FAdd(e, FMul(Half, VelSq(W))))

\* No operation of ConservativeToPrimitive's own arithmetic rounds on Uc.
C2PExact(Uc) ==
  LET invRho == FDiv(One_, Uc[0])
      W == Vec(Uc[0], FMul(Uc[1], invRho), FMul(Uc[2], invRho), FMul(Uc[3], invRho), Zero)
      k == FMul(FMul(Half, Uc[0]), VelSq(W))
  IN  /\ ExDiv(One_, Uc[0])
      /\ ExMul(Uc[1], invRho) /\ ExMul(Uc[2], invRho) /\ ExMul(Uc[3], invRho)
      /\ VelSqExact(W)
      /\ ExMul(Half, Uc[0])
      /\ ExMul(FMul(Half, Uc[0]), VelSq(W))
      /\ ExSub(Uc[4], k)
      /\ ExMul(FSub(Uc[4], k), invRho)

\* The internal energy ConservativeToPrimitive hands to GetPressure.
EnergyOf(Uc) ==
  LET invRho == FDiv(One_, Uc[0])
      W == Vec(Uc[0], FMul(Uc[1], invRho), FMul(Uc[2], invRho), FMul(Uc[3], invRho), Zero)
  IN  FMul(FSub(Uc[4], FMul(FMul(Half, Uc[0]), VelSq(W))), invRho)

\* GetPressure undoes GetInternalEnergyPerUnitMass at (rho, p), and the converse at (rho, e).
PressureInverts(rho, p) ==
  FEq(GetPressure(rho, GetInternalEnergyPerUnitMass(rho, p).ret).ret, p)
EnergyInverts(rho, e) ==
  FEq(GetInternalEnergyPerUnitMass(rho, GetPressure(rho, e).ret).ret, e)

Positive(a) == FLt(Zero, a)

\* C1 as stated: for a variant whose pressure and energy relations are mutual
\* inverses at the state, PrimitiveToConservative followed by
\* ConservativeToPrimitive gives back V (rho > 0) in all five components, and
\* ConservativeToPrimitive followed by PrimitiveToConservative gives back U
\* (U[0] > 0).
C1_RoundTripExact ==
  /\ (After("PrimitiveToConservative") /\ Positive(V[0]) /\ PressureInverts(V[0], V[4]))
        => VecEq(ConservativeToPrimitive(U, V).V, V)
  /\ (After("ConservativeToPrimitive") /\ Positive(U[0]) /\ EnergyInverts(U[0], EnergyOf(U)))
        => VecEq(PrimitiveToConservative(V, U).U, U)

\* C1 amended: the round trip always gives back the density, and gives back
\* all five components whenever the pressure and energy relations are inverses
\* at the state and no operation of the two transforms rounds.
C1_RoundTrip ==
  /\ (After("PrimitiveToConservative") /\ Positive(V[0]))
        => LET W == ConservativeToPrimitive(U, V).V
           IN  /\ FEq(W[0], V[0])
               /\ (PressureInverts(V[0], V[4]) /\ P2CExact(V) /\ C2PExact(U))
                     => VecEq(W, V)
  /\ (After("ConservativeToPrimitive") /\ Positive(U[0]))
        => LET Y == PrimitiveToConservative(V, U).U
           IN  /\ FEq(Y[0], U[0])
               /\ (EnergyInverts(U[0], EnergyOf(U)) /\ C2PExact(U) /\ P2CExact(V))
                     => VecEq(Y, U)

\* A round trip from a moving state with nonzero pressure in which nothing rounds.
C1_Witness ==
  /\ After("PrimitiveToConservative") /\ Positive(V[0])
  /\ PressureInverts(V[0], V[4]) /\ P2CExact(V) /\ C2PExact(U)
  /\ V[1] # Zero /\ V[4] # Zero
  /\ VecEq(ConservativeToPrimitive(U, V).V, V)

\* c^2 as ComputeMachNumber and ComputeSoundSpeed see it at the state W:
\* ComputeSoundSpeedSquare(rho, e) with e = GetInternalEnergyPerUnitMass(rho, p).
C2AtState(W) ==
  ComputeSoundSpeedSquare(W[0], GetInternalEnergyPerUnitMass(W[0], W[4]).ret).ret

\* C2: ComputeMachNumber(V) ends in exit_mpi() for every state whose c^2 <= 0,
\* the boundary c^2 = 0 included; it returns no Mach number divided by c = 0.
C2_MachFatalIfNotPositive ==
  (last.op = "ComputeMachNumber" /\ Implemented /\ FLe(C2AtState(last.Vin), Zero))
     => fatal

\* What the code does: only c^2 < 0 is fatal; at c^2 = 0 it returns |v|/0.
C2_MachFatalIffNegative ==
  (last.op = "ComputeMachNumber" /\ Implemented)
     => (fatal <=> FLt(C2AtState(last.Vin), Zero))
C2_Witness ==
  /\ After("ComputeMachNumber") /\ Implemented
  /\ C2AtState(last.Vin) = Zero /\ last.ret = PInf

\* C3: on a state with rho > 0 whose c^2 <= 0, CheckState returns true without
\* exiting, and ComputeSoundSpeed on the same (rho, e) exits; ComputeSoundSpeed
\* exits exactly when c^2 <= 0.
C3_CheckStateSignalsSoundSpeedExits ==
  /\ (last.op = "CheckState" /\ Implemented /\ Positive(last.Vin[0])
        /\ FLe(C2AtState(last.Vin), Zero))
       => /\ ~fatal /\ last.flag
          /\ ComputeSoundSpeed(last.Vin[0],
                GetInternalEnergyPerUnitMass(last.Vin[0], last.Vin[4]).ret).fatal
  /\ (last.op = "ComputeSoundSpeed" /\ Implemented)
       => (fatal <=> FLe(ComputeSoundSpeedSquare(last.a, last.b).ret, Zero))

\* CheckState has flagged a state of positive density and pressure whose
\* c^2 is negative, and ComputeSoundSpeed has exited on c^2 = 0.
C3_Witness ==
  /\ After("CheckState") /\ last.flag /\ variant = "VarFcnNH"
  /\ Positive(last.Vin[0]) /\ Positive(last.Vin[4])
  /\ FLt(C2AtState(last.Vin), Zero)

C3_WitnessExit ==
  /\ last.op = "ComputeSoundSpeed" /\ fatal /\ Implemented
  /\ ComputeSoundSpeedSquare(last.a, last.b).ret = Zero

\* std::max on doubles
FMax(a, b) == IF FLt(a, b) THEN b ELSE a

Clipped == last.op = "ClipDensityAndPressure"

\* rho_in < rhomin or p_in < pmin on entry of the last call
BelowFloor == FLt(last.Vin[0], rhomin) \/ FLt(last.Vin[4], pmin)

\* V after ClipDensityAndPressure is (max(rho_in, rhomin), u, v, w, max(p_in, pmin)),
\* and the call returns true exactly when rho_in < rhomin or p_in < pmin.
ClipPostcondition ==
  /\ V = Vec(FMax(last.Vin[0], rhomin), last.Vin[1], last.Vin[2], last.Vin[3],
             FMax(last.Vin[4], pmin))
  /\ ~fatal => (last.flag <=> BelowFloor)

\* C4 as stated: ... and afterwards V.rho >= rhomin and V.p >= pmin hold for
\* every input.
C4_ClipFloorsEveryInput ==
  Clipped => ClipPostcondition /\ FLe(rhomin, V[0]) /\ FLe(pmin, V[4])

\* C4 amended: the same, the two floors holding for every input whose density
\* and pressure are not NaN; a NaN density or pressure stays and fires no clamp.
C4_ClipFloors ==
  Clipped =>
    /\ ClipPostcondition
    /\ ~IsNaN(last.Vin[0]) => FLe(rhomin, V[0])
    /\ ~IsNaN(last.Vin[4]) => FLe(pmin, V[4])
    /\ IsNaN(last.Vin[0]) => IsNaN(V[0])
    /\ IsNaN(last.Vin[4]) => IsNaN(V[4])

\* Both clamps have fired on a moving state.
C4_Witness ==
  /\ Clipped /\ ~fatal /\ last.flag
  /\ FLt(last.Vin[0], rhomin) /\ FLt(last.Vin[4], pmin)
  /\ V[0] = rhomin /\ V[4] = pmin /\ V[1] # Zero

\* A NaN pressure has gone through the clamp.
C4_WitnessNaN == Clipped /\ ~fatal /\ IsNaN(last.Vin[4]) /\ IsNaN(V[4])

\* When the last ClipDensityAndPressure did not both clamp and have a U, U is not written.
UNotWritten == (Clipped /\ ~(last.flag /\ last.hasU)) => U = last.Uin

\* C5 as stated: whenever a clamp fires and U is supplied,
\* ConservativeToPrimitive(U_after) == V_after; otherwise U is not written.
C5_ClampConsistentExact ==
  /\ (Clipped /\ ~fatal /\ last.flag /\ last.hasU /\ PressureInverts(V[0], V[4]))
       => VecEq(ConservativeToPrimitive(U, V).V, V)
  /\ UNotWritten

\* C5 amended: whenever a clamp fires and U is supplied, U_after is
\* PrimitiveToConservative(V_after); ConservativeToPrimitive(U_after) gives
\* back the density of V_after, and all five components whenever the pressure
\* and energy relations are inverses at V_after and no operation of the two
\* transforms rounds.  Otherwise U is not written.
C5_ClampConsistent ==
  /\ (Clipped /\ ~fatal /\ last.flag /\ last.hasU)
       => LET W == ConservativeToPrimitive(U, V).V
          IN  /\ U = PrimitiveToConservative(V, last.Uin).U
              /\ ~IsNaN(V[0]) => FEq(W[0], V[0])
              /\ (PressureInverts(V[0], V[4]) /\ P2CExact(V) /\ C2PExact(U))
                    => VecEq(W, V)
  /\ UNotWritten

\* A clamp has fired with U supplied on a moving state, nothing has rounded,
\* and U gives back V.
C5_Witness ==
  /\ Clipped /\ ~fatal /\ last.flag /\ last.hasU
  /\ PressureInverts(V[0], V[4]) /\ P2CExact(V) /\ C2PExact(U)
  /\ V[1] # Zero /\ V[4] # Zero /\ U # last.Uin
  /\ VecEq(ConservativeToPrimitive(U, V).V, V)

\* C6: a second ClipDensityAndPressure on the same buffers leaves V and U as
\* the first left them.
C6_ClipIdempotent ==
  (Clipped /\ ~fatal) =>
     LET again == ClipDensityAndPressure(V, U, last.hasU)
     IN  again.V = V /\ again.U = U /\ ~again.fatal

\* The first call clamped and rewrote U.
C6_Witness ==
  /\ Clipped /\ ~fatal /\ last.flag /\ last.hasU /\ V # last.Vin /\ U # last.Uin
  /\ ClipDensityAndPressure(V, U, TRUE).V = V

Relations == {"GetPressure", "GetInternalEnergyPerUnitMass", "GetDensity",
              "GetDpdrho", "GetBigGamma"}

\* C7: each of the five relations, called on an object that does not override
\* it, prints an error and ends in exit_mpi(), whatever the arguments.
C7_BaseRelationsExit ==
  (last.op \in Relations /\ ~Implemented)
     => fatal /\ last.msgs = <<"print_error">>

\* GetDensity has been called on a VarFcnBase and has exited.
C7_Witness ==
  /\ last.op = "GetDensity" /\ variant = "VarFcnBase" /\ fatal
  /\ last.a # Zero

\* C8: on an object that implements the five relations, exit_mpi() is reached
\* by ComputeSoundSpeed with c^2 <= 0 and by ComputeMachNumber with c^2 <= 0
\* only: by no other call, in any sequence of calls.
C8_ExitOnlyFromSoundSpeedOrMach ==
  (fatal /\ Implemented) =>
     \/ /\ last.op = "ComputeSoundSpeed"
        /\ FLe(ComputeSoundSpeedSquare(last.a, last.b).ret, Zero)
     \/ /\ last.op = "ComputeMachNumber"
        /\ FLe(C2AtState(last.Vin), Zero)

\* The last call of a run ended in CheckState flagging a non-hyperbolic state,
\* and the process is still alive.
C8_Witness ==
  /\ Implemented /\ ~fatal /\ ncalls = MaxCalls
  /\ last.op = "CheckState" /\ last.flag
  /\ FLe(C2AtState(last.Vin), Zero)

\* C9: after any sequence of calls rhomin, pmin and verbose are the values the
\* constructor bound.
C9_ParametersConstant ==
  /\ rhomin = data.rhomin
  /\ pmin = data.pmin
  /\ verbose = data.verbose_

\* Every call of the run has been made, the last a clamp that fired with U supplied.
C9_Witness ==
  /\ ncalls = MaxCalls /\ Clipped /\ last.flag /\ last.hasU /\ ~fatal
  /\ rhomin = data.rhomin /\ Positive(rhomin)

\* C10: CheckState(V) returns true exactly when V.rho <= 0 or c^2 <= 0, c^2
\* being GetDpdrho(rho,e) + (p/rho) GetBigGamma(rho,e) with the pressure
\* stored in V and e = GetInternalEnergyPerUnitMass(rho,p); V is unchanged,
\* whatever verbose is.
C10_CheckStateResult ==
  (After("CheckState") /\ Implemented) =>
     LET rho == last.Vin[0]
         p   == last.Vin[4]
         e   == GetInternalEnergyPerUnitMass(rho, p).ret
         c2  == FAdd(GetDpdrho(rho, e).ret, FMul(FDiv(p, rho), GetBigGamma(rho, e).ret))
     IN  /\ last.flag <=> (FLe(rho, Zero) \/ FLe(c2, Zero))
         /\ V = last.Vin

\* CheckState has flagged a state of positive density whose c^2 is exactly 0,
\* with verbose on.
C10_Witness ==
  /\ After("CheckState") /\ Implemented /\ last.flag /\ verbose
  /\ Positive(last.Vin[0]) /\ C2AtState(last.Vin) = Zero
  /\ last.msgs = <<"stdout">> /\ V = last.Vin

\* CheckState has passed a state.
C10_WitnessValid == After("CheckState") /\ Implemented /\ ~last.flag

====
